---- MODULE Spec2Model ----
(***************************************************************************)
(* A model of the WebGL prototype of src/src/js/index.ts and of its camera *)
(* provider (src/unnamed/part_000).                                        *)
(*                                                                         *)
(* index.ts holds two variants of the application class:                   *)
(*   variant "A" (lines 1-303):   the manifest load starts a reference     *)
(*       model load; the particle field samples the model's vertices;      *)
(*       the per-frame uniform animation is commented out.                 *)
(*   variant "B" (lines 305-532): the manifest load builds the particle    *)
(*       field at once, with random offsets; update animates              *)
(*       scene.children[3] in every frame.                                 *)
(* The variable `variant` says which of the two is running.                *)
(*                                                                         *)
(* Numbers.  A JavaScript number v is held as the integer v * FIX (fixed   *)
(* point, four decimals).  Window sizes are whole pixels.  A camera aspect *)
(* is the quotient of two whole numbers and is held as a reduced fraction. *)
(***************************************************************************)
EXTENDS Integers, Sequences, FiniteSets

VARIABLES
    variant,        \* which class of index.ts runs: "A" or "B"
    pc,             \* "constructing": before the constructor's own this.update(); then "running"
    DEV_HELPERS,    \* constants.DEV_HELPERS
    lights,         \* number of entries of the lights module
    win,            \* window.innerWidth / window.innerHeight
    cameras,        \* cameras.dev, cameras.main
    scene,          \* scene.children
    targetObject,   \* this.targetObject: 0 = undefined, else the index of the model in scene
    debugCamera,    \* flags.debugCamera
    query,          \* the cameraDebug query parameter
    assetsState,    \* the AssetLoader promise
    objLoad,        \* the OBJLoader request
    rafPending,     \* callbacks queued with requestAnimationFrame
    renderer,       \* the renderer's viewport, scissor, clear colour and size
    lastFrame,      \* what the most recent update call did
    build,          \* the locals of the most recent objectInit call
    calls,          \* how many times objectInit has been called
    console,        \* console.log / console.warn lines of the load handlers
    op              \* the handler that ran last

vars == <<variant, pc, DEV_HELPERS, lights, win, cameras, scene, targetObject,
          debugCamera, query, assetsState, objLoad, rafPending, renderer,
          lastFrame, build, calls, console, op>>

----------------------------------------------------------------------------
(* Bounds of the model *)

\* number of instances of variant A (15012 in the source, line 88)
InstancesA == 3
\* number of instances of variant B (5000 in the source, line 388)
InstancesB == 2
\* at most this many child meshes in a loaded reference model
MaxChildren == 2
\* at most this many vertices in a child mesh's position array
MaxVerts == 2
\* at most this many lights in the lights module
MaxLights == 2
\* Math.random() returns one of the RandRes values k / RandRes, 0 <= k < RandRes
RandRes == 4

----------------------------------------------------------------------------
(* Numbers *)

FIX == 100 * 100

\* a * b for two fixed-point numbers; exact whenever the product has four decimals
Mul(a, b) == (a * b) \div FIX

\* a / b for two fixed-point numbers
Div(a, b) == (a * FIX) \div b

RECURSIVE GCD(_, _)
GCD(a, b) == IF b = 0 THEN a ELSE GCD(b, a % b)

\* the quotient w / h of two positive whole numbers
Ratio(w, h) == [num |-> w \div GCD(w, h), den |-> h \div GCD(w, h)]

RECURSIVE SqrtSearch(_, _, _)
SqrtSearch(n, lo, hi) ==
    IF lo >= hi THEN lo
    ELSE LET mid == (lo + hi + 1) \div 2
         IN  IF mid * mid <= n THEN SqrtSearch(n, mid, hi) ELSE SqrtSearch(n, lo, mid - 1)

\* Math.sqrt of a fixed-point number, rounded down to four decimals
Sqrt(a) == SqrtSearch(a * FIX, 0, a + FIX)

\* the k-th call (k = 0, 1, ...) of Math.random() of an engine in state seed:
\* a pseudo-random generator, every value of which lies on the grid k / RandRes
MathRandom(seed, k) == (((seed + k) % RandRes) * FIX) \div RandRes

----------------------------------------------------------------------------
(* Camera provider: src/unnamed/part_000 *)

fov == 50
near == 1
far == 10

\* new PerspectiveCamera(fov, ratio, near, far) followed by zoom(camera, value)
Camera(w, h, value) ==
    [fov      |-> fov,
     aspect   |-> Ratio(w, h),
     near     |-> near,
     far      |-> far,
     position |-> <<value * FIX, Mul(7500, value * FIX), 2 * FIX>>]

\* the two cameras the module exports, built when the module is loaded
Cameras(w, h) == [dev |-> Camera(w, h, 8), main |-> Camera(w, h, 3)]

----------------------------------------------------------------------------
(* Scene graph nodes *)

NoUniforms == [time |-> 0, sineTime |-> [fn |-> "none", arg |-> 0]]
NoGeometry == [maxInstancedCount |-> 0, offset |-> 0, color |-> 0,
               orientationStart |-> 0, orientationEnd |-> 0]

\* an Object3D as the constructors of three leave it: rotation 0, scale 1
Node(kind) ==
    [kind      |-> kind,
     rotationY |-> 0,
     scale     |-> <<FIX, FIX, FIX>>,
     children  |-> <<>>,
     uniforms  |-> NoUniforms,
     geometry  |-> NoGeometry]

\* scene.add(node)
SceneAdd(sc, node) == Append(sc, node)

\* the scene the constructor leaves: the helpers when DEV_HELPERS, then the lights
StartupScene(helpers, nLights) ==
    (IF helpers THEN <<Node("GridHelper"), Node("AxisHelper")>> ELSE <<>>)
        \o [i \in 1..nLights |-> Node("Light")]

Kinds(sc) == [i \in 1..Len(sc) |-> sc[i].kind]

----------------------------------------------------------------------------
(* Reference models: what OBJLoader hands to the load callback *)

\* coordinate `axis` (0, 1, 2) of vertex j of child c; all distinct, of both signs
Coord(c, j, axis) ==
    (IF (c + j) % 2 = 0 THEN -1 ELSE 1) * (c * FIX + j * 300 + axis * 100)

\* child.geometry.attributes.position.array of child c with n vertices
PositionArray(c, n) ==
    [k \in 1..(3 * n) |-> Coord(c, ((k - 1) \div 3) + 1, (k - 1) % 3)]

\* the loaded object: its children, each with a position array and a material
ObjectOf(lens) ==
    [c \in 1..Len(lens) |-> [position |-> PositionArray(c, lens[c]), wireframe |-> FALSE]]

Objects ==
    { ObjectOf(lens) : lens \in UNION { [1..m -> 0..MaxVerts] : m \in 0..MaxChildren } }

----------------------------------------------------------------------------
(* Particle-field builder: objectInit *)

\* const instances (line 88 in variant A, line 388 in variant B)
instances(v) == IF v = "A" THEN InstancesA ELSE InstancesB

\* the literal 0.01 of line 130
OffsetScale == 100

\* the literal 0.02 of lines 213-215
ModelScale == 200

\* lines 117-123: one {x, y, z} per group of three numbers of a position array
RECURSIVE GroupBy3(_, _)
GroupBy3(arr, i) ==
    IF i >= Len(arr) THEN <<>>
    ELSE <<[x |-> arr[i + 1], y |-> arr[i + 2], z |-> arr[i + 3]]>> \o GroupBy3(arr, i + 3)

\* lines 111-124: targetOffsets, filled child after child
RECURSIVE TargetOffsets(_)
TargetOffsets(children) ==
    IF children = <<>> THEN <<>>
    ELSE GroupBy3(Head(children).position, 0) \o TargetOffsets(Tail(children))

\* line 115: child.material.wireframe = true, for every child
Wireframed(children) == [c \in 1..Len(children) |-> [children[c] EXCEPT !.wireframe = TRUE]]

\* a read past the end of the array, taken for a zero vector
SampleAtPadded(pool, i) ==
    IF i + 1 \in DOMAIN pool
    THEN [defined |-> TRUE, x |-> pool[i + 1].x, y |-> pool[i + 1].y, z |-> pool[i + 1].z]
    ELSE [defined |-> TRUE, x |-> 0, y |-> 0, z |-> 0]

\* targetOffsets[i] (line 130): the element, or undefined past the end of the array
SampleAt(pool, i) ==
    IF i + 1 \in DOMAIN pool
    THEN [defined |-> TRUE, x |-> pool[i + 1].x, y |-> pool[i + 1].y, z |-> pool[i + 1].z]
    ELSE [defined |-> FALSE, x |-> 0, y |-> 0, z |-> 0]

\* the offset scaled by the model's 0.02 instead of 0.01
OffsetOfModelScale(s) == <<Mul(s.x, ModelScale), Mul(s.y, ModelScale), Mul(s.z, ModelScale)>>

\* line 130: the three numbers pushed for a sample point
OffsetOf(s) == <<Mul(s.x, OffsetScale), Mul(s.y, OffsetScale), Mul(s.z, OffsetScale)>>

\* lines 133 and 406: a colour channel is the value of Math.random() itself
ColorChannel(r) == r

\* Vector4.length
Length(v) == Sqrt(Mul(v[1], v[1]) + Mul(v[2], v[2]) + Mul(v[3], v[3]) + Mul(v[4], v[4]))

\* Vector4.normalize: divideScalar(length() || 1)
Normalize(v) ==
    LET d == IF Length(v) = 0 THEN FIX ELSE Length(v)
    IN  [k \in 1..4 |-> Div(v[k], d)]

\* lines 137-138 and 144-145: vector.set(.5, .5, .5, .5); vector.normalize()
HalfQuaternion == Normalize(<<5000, 5000, 5000, 5000>>)

\* lines 409-410 and 415-416: four components Math.random() * 2 - 1, normalized;
\* k is the number of Math.random() calls made before
RandomQuaternion(seed, k) ==
    Normalize([c \in 1..4 |-> 2 * MathRandom(seed, k + c - 1) - FIX])

\* the locals of objectInit before the instance loop
EmptyBuild(pool) ==
    [status |-> "running", at |-> 0, targetOffsets |-> pool, offsets |-> <<>>,
     colors |-> <<>>, orientationsStart |-> <<>>, orientationsEnd |-> <<>>]

\* lines 127-148: the instance loop of variant A from instance i on.  Reading .x of
\* an undefined targetOffsets[i] throws a TypeError, which ends objectInit there.
RECURSIVE InstanceLoopA(_, _, _)
InstanceLoopA(i, seed, b) ==
    IF i >= instances("A") THEN [b EXCEPT !.status = "ok", !.at = i]
    ELSE LET s == SampleAt(b.targetOffsets, i)
         IN  IF ~s.defined THEN [b EXCEPT !.status = "TypeError", !.at = i]
             ELSE InstanceLoopA(i + 1, seed,
                    [b EXCEPT
                       !.offsets = @ \o OffsetOf(s),
                       !.colors  = @ \o [c \in 1..4 |-> ColorChannel(MathRandom(seed, 4 * i + c - 1))],
                       !.orientationsStart = @ \o HalfQuaternion,
                       !.orientationsEnd   = @ \o HalfQuaternion])

\* lines 401-419: the instance loop of variant B from instance i on; fifteen
\* Math.random() calls per instance
RECURSIVE InstanceLoopB(_, _, _)
InstanceLoopB(i, seed, b) ==
    IF i >= instances("B") THEN [b EXCEPT !.status = "ok", !.at = i]
    ELSE InstanceLoopB(i + 1, seed,
           [b EXCEPT
              !.offsets = @ \o [c \in 1..3 |-> MathRandom(seed, 15 * i + c - 1) - 5000],
              !.colors  = @ \o [c \in 1..4 |-> ColorChannel(MathRandom(seed, 15 * i + 3 + c - 1))],
              !.orientationsStart = @ \o RandomQuaternion(seed, 15 * i + 7),
              !.orientationsEnd   = @ \o RandomQuaternion(seed, 15 * i + 11)])

\* lines 150-179 and 421-448: the instanced geometry and its shader material.
\* An attribute's count is the length of its array over its item size.
ParticleMesh(v, b) ==
    [Node("Mesh") EXCEPT
       !.uniforms = [time |-> FIX, sineTime |-> [fn |-> "const", arg |-> FIX]],
       !.geometry = [maxInstancedCount |-> instances(v),
                     offset           |-> Len(b.offsets) \div 3,
                     color            |-> Len(b.colors) \div 4,
                     orientationStart |-> Len(b.orientationsStart) \div 4,
                     orientationEnd   |-> Len(b.orientationsEnd) \div 4]]

\* the mesh is added whether or not the instance loop ran to its end
SceneAfterBuildAlways(v, sc, b) == SceneAdd(sc, ParticleMesh(v, b))

\* lines 179-183 and 448-449: scene.add(mesh) is reached only when nothing threw
SceneAfterBuild(v, sc, b) ==
    IF b.status = "ok" THEN SceneAdd(sc, ParticleMesh(v, b)) ELSE sc

\* objectInit (lines 85-185 in variant A, 385-454 in variant B), called with the
\* scene sc, this.targetObject = tgt (0: undefined) and the Math.random engine in
\* state seed.  Gives the scene and the locals it leaves.
objectInit(v, sc, tgt, seed) ==
    IF v = "A" /\ tgt = 0
    THEN \* line 113: this.targetObject is undefined, reading .children throws
         [scene |-> sc, build |-> [EmptyBuild(<<>>) EXCEPT !.status = "TypeError"]]
    ELSE IF v = "A"
    THEN LET marked == [sc EXCEPT ![tgt].children = Wireframed(@)]
             b == InstanceLoopA(0, seed, EmptyBuild(TargetOffsets(marked[tgt].children)))
         IN  [scene |-> SceneAfterBuild(v, marked, b), build |-> b]
    ELSE LET b == InstanceLoopB(0, seed, EmptyBuild(<<>>))
         IN  [scene |-> SceneAfterBuild(v, sc, b), build |-> b]

----------------------------------------------------------------------------
(* Load handlers.  A handler is a function of the part of the state the load  *)
(* path reads and writes, app; app.thrown says that the handler threw.        *)

NoBuild == [EmptyBuild(<<>>) EXCEPT !.status = "none"]

\* this.objectInit() called from a handler
CallObjectInit(app, seed) ==
    LET r == objectInit(app.variant, app.scene, app.targetObject, seed)
    IN  [app EXCEPT !.scene = r.scene, !.build = r.build, !.calls = @ + 1,
                    !.thrown = (r.build.status = "TypeError")]

\* loadObj (lines 187-222): starts the request; the callbacks run later
loadObj(app) == [app EXCEPT !.objLoad = "loading"]

\* a success handler that builds the particle field itself and, in variant A,
\* starts the model load as well (line 229 left active)
onAssetsLoadedAlsoBuilds(app, seed) ==
    LET logged == [app EXCEPT !.console = Append(@, "log: assets loaded")]
    IN  CallObjectInit(IF app.variant = "A" THEN loadObj(logged) ELSE logged, seed)

\* onAssetsLoaded (lines 224-230 in variant A, 456-461 in variant B)
onAssetsLoaded(app, seed) ==
    LET logged == [app EXCEPT !.console = Append(@, "log: assets loaded")]
    IN  IF app.variant = "A" THEN loadObj(logged) ELSE CallObjectInit(logged, seed)

\* an error handler that goes on as the success handler does
onAssetsErrorGoesOn(app) ==
    onAssetsLoaded([app EXCEPT !.console = Append(@, "warn: error")], 0)

\* onAssetsError (lines 232-234 and 463-465): console.warn(error), nothing else
onAssetsError(app) == [app EXCEPT !.console = Append(@, "warn: error")]

\* the model node of lines 211-215: the loaded object, scaled by 0.02 on each axis
ModelNode(obj) ==
    [Node("Group") EXCEPT !.children = obj, !.scale = <<ModelScale, ModelScale, ModelScale>>]

\* the load callback of loader.load (lines 205-221): keep the object, scale it,
\* add it to the scene, build the particle field
onObjLoaded(app, obj, seed) ==
    LET sc == SceneAdd(app.scene, ModelNode(obj))
    IN  CallObjectInit([app EXCEPT !.scene = sc, !.targetObject = Len(sc),
                                   !.objLoad = "loaded"], seed)

\* onError of loader.load (lines 200-202): console.log(xhr)
onObjError(app) == [app EXCEPT !.objLoad = "error", !.console = Append(@, "log: xhr")]

----------------------------------------------------------------------------
(* Resize handler and render passes *)

\* a handler that refreshes the dev camera only
ResizedDevOnly(cams, w, h) == [cams EXCEPT !.dev.aspect = Ratio(w, h)]

\* lines 237-238 and 468-469: both aspects become innerWidth / innerHeight
Resized(cams, w, h) == [cams EXCEPT !.dev.aspect = Ratio(w, h), !.main.aspect = Ratio(w, h)]

\* bottom scaled by the window's width
ViewportByWidth(left, bottom, width, height, w) ==
    <<left * w.w, bottom * w.w, width * w.w, height * w.h>>

\* lines 253-256 and 484-487: the fractions scaled by the window's size; a pixel
\* count p is held as p * FIX
Viewport(left, bottom, width, height, w) ==
    <<left * w.w, bottom * w.h, width * w.w, height * w.h>>

\* 0x121212, the clear colour of lines 260 and 491
ClearColor == 1184274

\* render (lines 246-262 and 477-493): the renderer after the pass
render(r, camName, frac, w) ==
    [r EXCEPT !.viewport   = Viewport(frac[1], frac[2], frac[3], frac[4], w),
              !.scissor    = Viewport(frac[1], frac[2], frac[3], frac[4], w),
              !.clearColor = ClearColor,
              !.drawn      = Append(@, [camera   |-> camName,
                                        frac     |-> frac,
                                        win      |-> w,
                                        viewport |-> Viewport(frac[1], frac[2], frac[3], frac[4], w),
                                        scissor  |-> Viewport(frac[1], frac[2], frac[3], frac[4], w),
                                        clearColor |-> ClearColor])]

\* lines 288-293 and 517-522: the render calls of a frame, in order
RenderPlan(flag) ==
    IF flag
    THEN << [camera |-> "dev",  frac |-> <<0, 0, FIX, FIX>>],
            [camera |-> "main", frac |-> <<0, 7500, 2500, 2500>>] >>
    ELSE << [camera |-> "main", frac |-> <<0, 0, FIX, FIX>>] >>

RECURSIVE RenderAll(_, _, _)
RenderAll(r, plan, w) ==
    IF plan = <<>> THEN r
    ELSE RenderAll(render(r, Head(plan).camera, Head(plan).frac, w), Tail(plan), w)

\* only the particle mesh has a material with uniforms
HasUniforms(node) == node.kind = "Mesh"

\* lines 511-515 of variant B, at time t (milliseconds): scene.children[3] is
\* rotated and its uniforms set.  An undefined child throws at line 513, a child
\* without material.uniforms at line 514, after its rotation was set.
Animate(sc, t) ==
    IF Len(sc) < 4 THEN [scene |-> sc, thrown |-> TRUE]
    ELSE LET rotated == [sc EXCEPT ![4].rotationY = Mul(t * FIX, 5)]
             utime   == Mul(t * FIX, 50)
         IN  IF ~HasUniforms(sc[4]) THEN [scene |-> rotated, thrown |-> TRUE]
             ELSE [scene  |-> [rotated EXCEPT ![4].uniforms =
                                  [time |-> utime,
                                   sineTime |-> [fn |-> "sin", arg |-> Mul(utime, 500)]]],
                   thrown |-> FALSE]

----------------------------------------------------------------------------
(* The state machine *)

\* the sizes the window takes; 800x600 and 1024x768 have the same ratio
WindowSizes == { [w |-> 800, h |-> 600], [w |-> 1024, h |-> 768], [w |-> 600, h |-> 800] }

\* the values performance.now() returns, in milliseconds
Times == {1000, 2000}

Seeds == 0..(RandRes - 1)

\* the part of the state the load handlers work on
App ==
    [variant |-> variant, scene |-> scene, targetObject |-> targetObject,
     objLoad |-> objLoad, build |-> build, calls |-> calls, console |-> console,
     thrown |-> FALSE]

Store(app) ==
    /\ scene' = app.scene
    /\ targetObject' = app.targetObject
    /\ objLoad' = app.objLoad
    /\ build' = app.build
    /\ calls' = app.calls
    /\ console' = app.console

\* The state the constructor (lines 31-83, 332-383) has reached just before its
\* last statement, this.update(): the cameras built from the window's size when
\* the cameras module was loaded, the helpers and lights in the scene, the
\* manifest load started.
Init ==
    /\ variant \in {"A", "B"}
    /\ pc = "constructing"
    /\ DEV_HELPERS \in BOOLEAN
    /\ lights \in 0..MaxLights
    /\ win \in WindowSizes
    /\ cameras = Cameras(win.w, win.h)
    /\ scene = StartupScene(DEV_HELPERS, lights)
    /\ targetObject = 0
    /\ debugCamera \in BOOLEAN
    /\ query = "unset"
    /\ assetsState = "pending"
    /\ objLoad = "idle"
    /\ rafPending = 0
    /\ renderer = [viewport |-> <<>>, scissor |-> <<>>, clearColor |-> -1,
                   size |-> <<>>, drawn |-> <<>>]
    /\ lastFrame = [ran |-> FALSE, flag |-> FALSE, thrown |-> FALSE]
    /\ build = NoBuild
    /\ calls = 0
    /\ console = <<>>
    /\ op = "constructor"

\* update (lines 264-300, 495-529), called by the constructor or as a queued
\* animation-frame callback, with performance.now() = t.  It queues itself first;
\* variant B then animates scene.children[3]; then come the render calls, unless
\* the animation threw.
update(t) ==
    /\ pc = "constructing" \/ rafPending > 0
    /\ pc' = "running"
    /\ rafPending' = (IF pc = "constructing" THEN rafPending ELSE rafPending - 1) + 1
    /\ LET a    == IF variant = "B" THEN Animate(scene, t)
                                    ELSE [scene |-> scene, thrown |-> FALSE]
           plan == IF a.thrown THEN <<>> ELSE RenderPlan(debugCamera)
       IN  /\ scene' = a.scene
           /\ renderer' = RenderAll([renderer EXCEPT !.drawn = <<>>], plan, win)
           /\ lastFrame' = [ran |-> TRUE, flag |-> debugCamera, thrown |-> a.thrown]
    /\ op' = "update"
    /\ UNCHANGED <<variant, DEV_HELPERS, lights, win, cameras, targetObject, debugCamera,
                   query, assetsState, objLoad, build, calls, console>>

\* a resize event: the window has taken the size `size` and onResize (lines
\* 236-244, 467-475) runs.  The browser fires the event before the animation-frame
\* callbacks of the same rendering step, so no frame comes between the two.
onResize(size) ==
    /\ pc = "running"
    /\ win' = size
    /\ cameras' = Resized(cameras, size.w, size.h)
    /\ renderer' = [renderer EXCEPT !.size = <<size.w, size.h>>]
    /\ op' = "onResize"
    /\ UNCHANGED <<variant, pc, DEV_HELPERS, lights, scene, targetObject, debugCamera,
                   query, assetsState, objLoad, rafPending, lastFrame, build, calls,
                   console>>

\* the debug panel flips flags.debugCamera and calls onChange (lines 68-72)
toggleDebugCamera ==
    /\ pc = "running"
    /\ debugCamera' = ~debugCamera
    /\ query' = IF debugCamera' THEN "true" ELSE "false"
    /\ op' = "toggleDebugCamera"
    /\ UNCHANGED <<variant, pc, DEV_HELPERS, lights, win, cameras, scene, targetObject,
                   assetsState, objLoad, rafPending, renderer, lastFrame, build, calls,
                   console>>

\* the AssetLoader promise resolves (lines 78-80): onAssetsLoaded runs, and
\* onAssetsError after it should it throw
assetsResolved(seed) ==
    /\ pc = "running"
    /\ assetsState = "pending"
    /\ assetsState' = "resolved"
    /\ LET app == onAssetsLoaded(App, seed)
       IN  Store(IF app.thrown THEN onAssetsError(app) ELSE app)
    /\ op' = "onAssetsLoaded"
    /\ UNCHANGED <<variant, pc, DEV_HELPERS, lights, win, cameras, debugCamera, query,
                   rafPending, renderer, lastFrame>>

\* the AssetLoader promise rejects: onAssetsError runs
assetsRejected ==
    /\ pc = "running"
    /\ assetsState = "pending"
    /\ assetsState' = "rejected"
    /\ Store(onAssetsError(App))
    /\ op' = "onAssetsError"
    /\ UNCHANGED <<variant, pc, DEV_HELPERS, lights, win, cameras, debugCamera, query,
                   rafPending, renderer, lastFrame>>

\* the model request succeeds with the object obj
objLoaded(obj, seed) ==
    /\ objLoad = "loading"
    /\ Store(onObjLoaded(App, obj, seed))
    /\ op' = "onObjLoaded"
    /\ UNCHANGED <<variant, pc, DEV_HELPERS, lights, win, cameras, debugCamera, query,
                   assetsState, rafPending, renderer, lastFrame>>

\* the model request fails
objFailed ==
    /\ objLoad = "loading"
    /\ Store(onObjError(App))
    /\ op' = "onObjError"
    /\ UNCHANGED <<variant, pc, DEV_HELPERS, lights, win, cameras, debugCamera, query,
                   assetsState, rafPending, renderer, lastFrame>>

Next ==
    \/ \E t \in Times : update(t)
    \/ \E size \in WindowSizes : onResize(size)
    \/ toggleDebugCamera
    \/ \E seed \in Seeds : assetsResolved(seed)
    \/ assetsRejected
    \/ \E obj \in Objects : \E seed \in Seeds : objLoaded(obj, seed)
    \/ objFailed

Spec == Init /\ [][Next]_vars

----------------------------------------------------------------------------
(* What the claims speak of *)

\* the kinds of the nodes the constructor added
StartupKinds == Kinds(StartupScene(DEV_HELPERS, lights))

\* the particle meshes of the scene graph
Meshes == { i \in DOMAIN scene : scene[i].kind = "Mesh" }

\* the children of the reference model, none before it is loaded
ModelChildren == IF targetObject = 0 THEN <<>> ELSE scene[targetObject].children

\* the sample points of the children c..: the vertices of their position arrays
RECURSIVE VertexCount(_, _)
VertexCount(children, c) ==
    IF c > Len(children) THEN 0
    ELSE (Len(children[c].position) \div 3) + VertexCount(children, c + 1)

PoolSize == VertexCount(ModelChildren, 1)

\* coordinate axis (1, 2, 3) of sample point i (from 0) of the children c..
RECURSIVE SampleCoord(_, _, _, _)
SampleCoord(children, c, i, axis) ==
    IF 3 * i < Len(children[c].position)
    THEN children[c].position[3 * i + axis]
    ELSE SampleCoord(children, c + 1, i - (Len(children[c].position) \div 3), axis)

\* the build's four arrays have the lengths 3N, 4N, 4N, 4N
LengthsFor(n) ==
    /\ Len(build.offsets) = 3 * n
    /\ Len(build.colors) = 4 * n
    /\ Len(build.orientationsStart) = 4 * n
    /\ Len(build.orientationsEnd) = 4 * n

\* every colour channel lies in [0, 1)
ColorsInUnitInterval == \A k \in DOMAIN build.colors : 0 <= build.colors[k] /\ build.colors[k] < FIX

\* offset i is sample point i times 0.01, for every instance the pool has a point for
OffsetsFromSamples(n) ==
    \A i \in 0..(n - 1) :
        /\ i < PoolSize
        /\ \A axis \in 1..3 :
              /\ 3 * i + axis \in DOMAIN build.offsets
              /\ build.offsets[3 * i + axis] * 100 = SampleCoord(ModelChildren, 1, i, axis)

----------------------------------------------------------------------------
(* Claims *)

\* C1: when objectInit of variant A runs with more instances than the model has
\* sample points, it ends with a TypeError at the first index past the pool,
\* i = pool size, having pushed an offset, a colour and orientations for the
\* instances before i only; with enough sample points it does not throw.
C1_OutOfRangeFailure ==
    (variant = "A" /\ calls >= 1) =>
        IF PoolSize < InstancesA
        THEN /\ build.status = "TypeError"
             /\ build.at = PoolSize
             /\ LengthsFor(PoolSize)
        ELSE build.status = "ok"

C1_Witness ==
    /\ variant = "A" /\ calls = 1
    /\ 0 < PoolSize /\ PoolSize < InstancesA
    /\ build.status = "TypeError"

\* C2: once the manifest load has been rejected, the scene graph holds the nodes
\* the constructor added and no others, the model load is never started and
\* objectInit is never called.
C2_RejectionLeavesStartupScene ==
    assetsState = "rejected" =>
        /\ Kinds(scene) = StartupKinds
        /\ objLoad = "idle"
        /\ calls = 0
        /\ targetObject = 0
        /\ Meshes = {}

C2_Witness ==
    /\ assetsState = "rejected"
    /\ op = "update"
    /\ Len(scene) > 0

\* C3: both cameras' aspect always equals window width / window height (so it does
\* after every onResize), and no step other than onResize changes a camera.
C3_Aspect ==
    /\ [](\A c \in {"dev", "main"} :
             /\ cameras[c].aspect.num * win.h = cameras[c].aspect.den * win.w
             /\ cameras[c].aspect.den > 0)
    /\ [][cameras' # cameras => op' = "onResize"]_vars

C3_Witness ==
    /\ op = "onResize"
    /\ renderer.size = <<600, 800>>
    /\ win = [w |-> 600, h |-> 800]
    /\ cameras.main.aspect = [num |-> 3, den |-> 4]
    /\ cameras.dev.aspect = [num |-> 3, den |-> 4]
    /\ lastFrame.ran /\ calls = 1

\* C4: every frame issues two render calls when the debugCamera flag it read was
\* true, and one when it was false.
C4_PassesPerFrame ==
    lastFrame.ran => Len(renderer.drawn) = (IF lastFrame.flag THEN 2 ELSE 1)

\* C5, as stated: in a built particle field every offset triple is the sample
\* point of the same index times 0.01, every colour channel lies in [0, 1), and
\* the arrays have the lengths 3N, 4N, 4N, 4N.
C5_Original ==
    build.status = "ok" =>
        /\ LengthsFor(instances(variant))
        /\ ColorsInUnitInterval
        /\ OffsetsFromSamples(instances(variant))

\* C5, amended: in a built particle field the arrays have the lengths 3N, 4N, 4N,
\* 4N and every colour channel lies in [0, 1); in variant A every offset triple is
\* the sample point of the same index times 0.01; in variant B every offset
\* coordinate is a random number less 0.5, in [-0.5, 0.5).
C5_Amended ==
    build.status = "ok" =>
        /\ LengthsFor(instances(variant))
        /\ ColorsInUnitInterval
        /\ variant = "A" => OffsetsFromSamples(InstancesA)
        /\ variant = "B" =>
              \A k \in DOMAIN build.offsets :
                  -5000 <= build.offsets[k] /\ build.offsets[k] < 5000

C5_Witness ==
    /\ variant = "A"
    /\ build.status = "ok"
    /\ Len(ModelChildren) = 2
    /\ Len(ModelChildren[1].position) = 3
    /\ Len(ModelChildren[2].position) = 6
    /\ \E k \in DOMAIN build.colors : build.colors[k] = ((RandRes - 1) * FIX) \div RandRes

\* C6: in every render pass the viewport and the scissor rectangle are
\* (left * W, bottom * H, width * W, height * H) for the pass's fractions and the
\* window's size during that frame, and the renderer is left with the rectangle of
\* the last pass; fractions (0, 0.75, 0.25, 0.25) in an 800x600 window give
\* (0, 450, 200, 150).
C6_ViewportRectangle ==
    /\ \A k \in DOMAIN renderer.drawn :
          LET p == renderer.drawn[k]
              rect == <<p.frac[1] * p.win.w, p.frac[2] * p.win.h,
                        p.frac[3] * p.win.w, p.frac[4] * p.win.h>>
          IN  /\ p.viewport = rect
              /\ p.scissor = rect
              /\ op = "update" => p.win = win
              /\ (p.frac = <<0, 7500, 2500, 2500>> /\ p.win = [w |-> 800, h |-> 600])
                    => p.viewport = <<0, 450 * FIX, 200 * FIX, 150 * FIX>>
    /\ renderer.drawn # <<>> =>
          /\ renderer.viewport = renderer.drawn[Len(renderer.drawn)].viewport
          /\ renderer.scissor = renderer.drawn[Len(renderer.drawn)].scissor

C6_Witness ==
    /\ op = "update"
    /\ renderer.size = <<800, 600>>
    /\ Len(renderer.drawn) = 2
    /\ renderer.drawn[2].frac = <<0, 7500, 2500, 2500>>
    /\ renderer.drawn[2].win = [w |-> 800, h |-> 600]
    /\ renderer.viewport = <<0, 4500000, 2000000, 1500000>>

\* C7, as stated: objectInit is called at most once, every call comes after the
\* manifest load resolved and the model load succeeded (targetObject set, the
\* model in the scene), and at most one particle mesh is in the scene.
C7_Original ==
    /\ calls <= 1
    /\ Cardinality(Meshes) <= 1
    /\ calls >= 1 =>
          /\ assetsState = "resolved"
          /\ objLoad = "loaded"
          /\ targetObject # 0
          /\ scene[targetObject].kind = "Group"

\* C7, amended: objectInit is called at most once, only after the manifest load
\* resolved, and at most one particle mesh is in the scene; in variant A it is
\* called exactly when the model load has succeeded, with targetObject set and the
\* model in the scene; in variant B it is called when the manifest load resolves,
\* and no model is ever loaded.
C7_Amended ==
    /\ calls <= 1
    /\ Cardinality(Meshes) <= 1
    /\ calls >= 1 => assetsState = "resolved"
    /\ variant = "A" =>
          /\ calls = 1 <=> objLoad = "loaded"
          /\ calls = 1 => (targetObject # 0 /\ scene[targetObject].kind = "Group")
    /\ variant = "B" =>
          /\ calls = 1 <=> assetsState = "resolved"
          /\ objLoad = "idle" /\ targetObject = 0

C7_Witness ==
    /\ variant = "A"
    /\ calls = 1
    /\ Cardinality(Meshes) = 1
    /\ objLoad = "loaded"
    /\ op = "update"

\* C8: after every frame exactly one animation-frame callback is queued, and the
\* frame has issued at least one render call.
C8_FrameLoopRenders ==
    lastFrame.ran => (rafPending = 1 /\ Len(renderer.drawn) >= 1)

\* C9: a frame that read the flag false renders the main camera alone, with
\* fractions (0, 0, 1, 1); a frame that read it true renders the dev camera with
\* (0, 0, 1, 1) and then the main camera with (0, 0.75, 0.25, 0.25).
C9_RenderPath ==
    lastFrame.ran =>
        [k \in DOMAIN renderer.drawn |-> <<renderer.drawn[k].camera, renderer.drawn[k].frac>>]
            = IF lastFrame.flag
              THEN << <<"dev", <<0, 0, FIX, FIX>> >>, <<"main", <<0, 7500, 2500, 2500>> >> >>
              ELSE << <<"main", <<0, 0, FIX, FIX>> >> >>

\* C10: after a build that failed no particle mesh is in the scene: the scene is
\* the constructor's nodes followed by the model, whose scale is 0.02 on each axis.
C10_FailedBuildAddsNoMesh ==
    build.status = "TypeError" =>
        /\ Meshes = {}
        /\ Kinds(scene) = StartupKinds \o <<"Group">>
        /\ targetObject = Len(scene)
        /\ scene[targetObject].scale = <<200, 200, 200>>

C10_Witness ==
    /\ build.status = "TypeError"
    /\ build.at > 0
    /\ op = "update"
    /\ objLoad = "loaded"

====
